---- MODULE Spec2Model ----
(***************************************************************************)
(* Model of src/src/crf.py: class LinearCRF, a linear-chain CRF for        *)
(* Chinese word segmentation.                                              *)
(*                                                                         *)
(* Number representation.  Floats are modelled as exact reals.  A weight   *)
(* is an integer count k of a fixed unit u (w = k*u); the real number      *)
(* e^u > 1 is taken to be 2, so exp(w) = 2^k.  A log-domain quantity       *)
(* that is a sum of weights (M, delta) is kept as that integer sum; a      *)
(* log-domain quantity produced by log_sum_exp (alpha, beta, z) is kept by *)
(* its exponential, an exact integer.  A probability is kept as its        *)
(* numerator over the common denominator exp(z).                           *)
(*                                                                         *)
(* Python lists and numpy arrays are functions on 0..len-1, so that the    *)
(* index arithmetic of the source is kept as written.                      *)
(***************************************************************************)
EXTENDS Integers, Sequences, FiniteSets, TLC

VARIABLES
    pc,                   \* position of the caller: "new", "minimize", "done", "error", ...
    err,                  \* the exception that escaped the last call, or "none"
    corpus,               \* the lines f.readlines() returned for the file given to train
    nwords,               \* self.nwords
    word_index,           \* self.word_index
    index_word,           \* self.index_word
    nfeatures,            \* self.nfeatures
    feature_index,        \* self.feature_index
    index_feature,        \* self.index_feature
    prior_feature_count,  \* self.prior_feature_count
    nweights,             \* self.nweights
    weights,              \* self.weights
    train_data,           \* self.train_data
    evals,                \* number of evaluations the optimizer has made so far
    saved,                \* save() has been called
    res,                  \* what minimize returned: [success, x], or "none"
    xin,                  \* the sequence handed to the inference / gradient functions
    yin,                  \* the label sequence handed to log_potential
    out                   \* the value the last pure call returned

vars == <<pc, err, corpus, nwords, word_index, index_word, nfeatures,
          feature_index, index_feature, prior_feature_count, nweights,
          weights, train_data, evals, saved, res, xin, yin, out>>

modelVars == <<nwords, word_index, index_word, nfeatures, feature_index,
               index_feature, prior_feature_count, nweights, train_data>>

----------------------------------------------------------------------------
(* Bounds of the model *)

MaxLines == 3        \* lines in a corpus file
MaxEvals == 2        \* evaluations the optimizer makes before it returns
MaxWeight == 2       \* largest weight (in units) the optimizer proposes
MaxTokens == 4       \* non-sentinel tokens of a sequence given to inference
MaxEnumTokens == 3   \* non-sentinel tokens of a sequence whose label sequences are enumerated

----------------------------------------------------------------------------
(* __init__ *)

ntags == 4
Tags == 0 .. (ntags - 1)
index_tag == [t \in Tags |-> <<<<"B">>, <<"I">>, <<"E">>, <<"S">>>>[t + 1]]
tag_index == [s \in {<<"B">>, <<"I">>, <<"E">>, <<"S">>} |->
                 CHOOSE t \in Tags : index_tag[t] = s]

\* A string is the sequence of its characters; the sentinels are single
\* symbols that no corpus character equals.
start_char == <<"<START>">>
end_char == <<"<END>">>
start_tag == <<"S">>
end_tag == <<"S">>
start_index == tag_index[start_tag]
end_index == tag_index[end_tag]

U_feature_pos == <<-2, -1, 0, 1, 2>>
B_feature_pos == <<0>>
nU_features == Len(U_feature_pos)
nB_features == Len(B_feature_pos)

init_word_index == (start_char :> 0) @@ (end_char :> 1)
init_index_word == (0 :> start_char) @@ (1 :> end_char)

----------------------------------------------------------------------------
(* Helpers for Python lists *)

Len0(f) == Cardinality(DOMAIN f)
ZeroBased(s) == [i \in 0 .. (Len(s) - 1) |-> s[i + 1]]
Empty0 == [i \in {} |-> 0]
Zeros(n) == [k \in 0 .. (n - 1) |-> 0]

\* the function f itself, stored as a table: an array holds values, it is not
\* recomputed at each read
Stored(f) == f @@ Empty0

RECURSIVE SumOver(_, _)
\* sum of f[k] for k in S
SumOver(f, S) ==
    IF S = {} THEN 0
    ELSE LET k == CHOOSE e \in S : TRUE IN f[k] + SumOver(f, S \ {k})

----------------------------------------------------------------------------
(* train, lines 332-350: corpus ingestion *)

Whitespace == {" ", "\n"}

RECURSIVE SplitFrom(_, _, _, _)
\* str.split() with no argument: fields are maximal runs of non-whitespace
SplitFrom(line, k, cur, acc) ==
    IF k > Len(line)
    THEN IF cur = <<>> THEN acc ELSE Append(acc, cur)
    ELSE IF line[k] \in Whitespace
         THEN SplitFrom(line, k + 1, <<>>, IF cur = <<>> THEN acc ELSE Append(acc, cur))
         ELSE SplitFrom(line, k + 1, Append(cur, line[k]), acc)

Split(line) == SplitFrom(line, 1, <<>>, <<>>)

IngestStart(wi, iw, nw) ==
    [sentence |-> <<start_char>>, label |-> <<start_tag>>,
     sentences |-> <<>>, labels |-> <<>>,
     word_index |-> wi, index_word |-> iw, nwords |-> nw, err |-> "none"]

\* the body of `for line in lines`
IngestLine(st, line) ==
    IF Len(line) < 2
    THEN [st EXCEPT !.sentences = Append(@, Append(st.sentence, end_char)),
                    !.labels = Append(@, Append(st.label, end_tag)),
                    !.sentence = <<start_char>>,
                    !.label = <<start_tag>>]
    ELSE LET fields == Split(line) IN
         IF Len(fields) # 2
         THEN [st EXCEPT !.err = "ValueError"]
         ELSE LET char == fields[1]
                  tag == fields[2]
                  st1 == [st EXCEPT !.sentence = Append(@, char),
                                    !.label = Append(@, tag)]
              IN IF char \notin DOMAIN st.word_index
                 THEN [st1 EXCEPT !.word_index = @ @@ (char :> st.nwords),
                                  !.index_word = @ @@ (st.nwords :> char),
                                  !.nwords = @ + 1]
                 ELSE st1

RECURSIVE IngestFrom(_, _, _)
IngestFrom(lines, k, st) ==
    IF k > Len(lines) \/ st.err # "none" THEN st
    ELSE IngestFrom(lines, k + 1, IngestLine(st, lines[k]))

Ingest(lines, wi, iw, nw) == IngestFrom(lines, 1, IngestStart(wi, iw, nw))

----------------------------------------------------------------------------
(* train, lines 355-376: enumeration of the feature space *)

\* The features in the order the nested loops visit them; feature_id is the
\* position in this list.
UFeatureList(nw) ==
    [j \in 1 .. (nU_features * nw * ntags) |->
        <<"U", U_feature_pos[((j - 1) \div (nw * ntags)) + 1],
               ((j - 1) \div ntags) % nw, (j - 1) % ntags>>]

BFeatureList(nw) ==
    [j \in 1 .. (nB_features * nw * ntags * ntags) |->
        <<"B", B_feature_pos[((j - 1) \div (nw * ntags * ntags)) + 1],
               ((j - 1) \div (ntags * ntags)) % nw,
               ((j - 1) \div ntags) % ntags, (j - 1) % ntags>>]

EnumerateFeatures(nw) == UFeatureList(nw) \o BFeatureList(nw)

\* self.index_feature[feature_id] = feature
IndexFeatureOf(flist) == ZeroBased(flist)

\* feature_id incremented before the assignment instead of after it
FeatureIndexOfLate(flist) ==
    [f \in {flist[j] : j \in 1 .. Len(flist)} |->
        CHOOSE j \in 1 .. Len(flist) :
            flist[j] = f /\ \A j2 \in 1 .. Len(flist) : flist[j2] = f => j2 <= j]

\* self.feature_index[feature] = feature_id; a later assignment to the same
\* key replaces an earlier one
FeatureIndexOf(flist) ==
    [f \in {flist[j] : j \in 1 .. Len(flist)} |->
        (CHOOSE j \in 1 .. Len(flist) :
            flist[j] = f /\ \A j2 \in 1 .. Len(flist) : flist[j2] = f => j2 <= j) - 1]

----------------------------------------------------------------------------
(* The features active at a transition: the lookups of log_potential_at,   *)
(* model_gradient_x and the prior-count loop of train                      *)

\* the keys looked up in self.feature_index for (x, yi_1, yi, i)
ActiveKeys(x, yi_1, yi, i) ==
    {<<"U", U_feature_pos[p], x[U_feature_pos[p] + i], yi>> :
        p \in {q \in 1 .. nU_features :
                 U_feature_pos[q] + i >= 0 /\ U_feature_pos[q] + i < Len0(x)}}
    \cup
    {<<"B", B_feature_pos[p], x[B_feature_pos[p] + i], yi_1, yi>> :
        p \in {q \in 1 .. nB_features :
                 B_feature_pos[q] + i >= 1 /\ B_feature_pos[q] + i < Len0(x)}}

\* activate_feature: the feature ids of the keys (every key is in fi)
ActiveFeatures(fi, x, yi_1, yi, i) ==
    {fi[key] : key \in ActiveKeys(x, yi_1, yi, i)}

----------------------------------------------------------------------------
(* feature_at, lines 65-89 *)

FeatureAt(idf, k, x, yi_1, yi, i) ==
    LET feature == idf[k] IN
    IF feature[1] = "U"
    THEN IF /\ i + feature[2] >= 0
            /\ i + feature[2] <= Len0(x) - 1
            /\ yi = feature[4]
            /\ x[i + feature[2]] = feature[3]
         THEN 1 ELSE 0
    ELSE IF /\ i + feature[2] >= 1
            /\ x[i + feature[2]] = feature[3]
            /\ yi_1 = feature[4]
            /\ yi = feature[5]
         THEN 1 ELSE 0

----------------------------------------------------------------------------
(* log_potential_at and log_potential_matrix, lines 92-118 *)

\* a dict lookup self.feature_index[key] raises KeyError for a missing key
KeyErrorAt(fi, x, yi_1, yi, i) ==
    \E key \in ActiveKeys(x, yi_1, yi, i) : key \notin DOMAIN fi

\* self.weights[activate_feature].sum()
LogPotentialAt(fi, w, x, yi_1, yi, i) ==
    SumOver(w, ActiveFeatures(fi, x, yi_1, yi, i))

\* the lookups of log_potential_matrix(x): i in range(1, nwords_x + 2)
KeyErrorIn(fi, x) ==
    \E i \in 1 .. (Len0(x) - 1), tag1 \in Tags, tag2 \in Tags :
        KeyErrorAt(fi, x, tag1, tag2, i)

\* M, of shape (nwords_x + 2, ntags, ntags); M[0] stays zero
LogPotentialMatrix(fi, w, x) ==
    Stored([i \in 0 .. (Len0(x) - 1) |->
        Stored([tag1 \in Tags |->
            Stored([tag2 \in Tags |->
                IF i = 0 THEN 0 ELSE LogPotentialAt(fi, w, x, tag1, tag2, i)])])])

----------------------------------------------------------------------------
(* log_sum_exp, log_alpha, log_beta, log_z, lines 121-188                  *)
(* alpha, beta and z are kept by their exponentials.                       *)

\* exp of k units, with 2 for the base e^u
Exp(k) == 2 ^ k

MaxOf(arr) == CHOOSE m \in {arr[t] : t \in DOMAIN arr} : \A t \in DOMAIN arr : arr[t] <= m

\* max_value + log(sum(exp(arr - max_value))), on the exponentials e[t] of
\* arr[t]: exp(arr - max_value) is e[t] / mx, their sum is (sum of e) / mx,
\* and adding max_value to the logarithm multiplies by mx again; over the
\* reals the shift cancels exactly, and the result is the sum of the e[t]
LogSumExp(e) == SumOver(e, DOMAIN e)

\* np.zeros((rows, ntags)), each entry kept as exp(0)
ZerosTable(rows) == Stored([i \in 0 .. (rows - 1) |-> Stored([t \in Tags |-> 1])])

RECURSIVE LogAlphaFrom(_, _, _, _)
LogAlphaFrom(M, nwords_x, i, alpha) ==
    IF i > nwords_x THEN alpha
    ELSE LogAlphaFrom(M, nwords_x, i + 1,
            Stored([alpha EXCEPT ![i] =
                Stored([tag \in Tags |->
                    LogSumExp([t \in Tags |-> alpha[i - 1][t] * Exp(M[i][t][tag])])])]))

LogAlpha(x, M) ==
    LET nwords_x == Len0(x) - 2
        alpha == ZerosTable(nwords_x + 1)
    IN LogAlphaFrom(M, nwords_x, 2,
          Stored([alpha EXCEPT ![1] = Stored([tag \in Tags |-> Exp(M[1][start_index][tag])])]))

RECURSIVE LogBetaFrom(_, _, _, _)
LogBetaFrom(M, nwords_x, i, beta) ==
    IF i >= nwords_x THEN beta
    ELSE LET index == nwords_x - i IN
         LogBetaFrom(M, nwords_x, i + 1,
            Stored([beta EXCEPT ![index] =
                Stored([tag \in Tags |->
                    LogSumExp([t \in Tags |->
                        beta[index + 1][t] * Exp(M[index + 1][tag][t])])])]))

\* the last row of beta read from M[nwords_x] instead of M[nwords_x + 1]
LogBetaRowBefore(x, M) ==
    LET nwords_x == Len0(x) - 2
        beta == ZerosTable(nwords_x + 1)
    IN LogBetaFrom(M, nwords_x, 1,
          Stored([beta EXCEPT ![nwords_x] =
              Stored([tag \in Tags |-> Exp(M[nwords_x][tag][end_index])])]))

LogBeta(x, M) ==
    LET nwords_x == Len0(x) - 2
        beta == ZerosTable(nwords_x + 1)
    IN LogBetaFrom(M, nwords_x, 1,
          Stored([beta EXCEPT ![nwords_x] =
              Stored([tag \in Tags |-> Exp(M[nwords_x + 1][tag][end_index])])]))

LogZ(x, M, alpha) ==
    LET nwords_x == Len0(x) - 2 IN
    LogSumExp([t \in Tags |-> alpha[nwords_x][t] * Exp(M[nwords_x + 1][t][end_index])])

----------------------------------------------------------------------------
(* log_potential, lines 191-208                                            *)
(* log p(y|x) is kept as the fraction <<numerator, denominator>> of p.     *)

RECURSIVE LogPFrom(_, _, _, _, _, _)
LogPFrom(fi, w, x, y, i, log_p) ==
    IF i > Len0(y) - 2 THEN log_p
    ELSE LogPFrom(fi, w, x, y, i + 1,
                  log_p + LogPotentialAt(fi, w, x, y[i - 1], y[i], i))

LogPotential(fi, w, x, y) ==
    LET M == LogPotentialMatrix(fi, w, x)
        alpha == LogAlpha(x, M)
    IN <<Exp(LogPFrom(fi, w, x, y, 1, 0)), LogZ(x, M, alpha)>>

----------------------------------------------------------------------------
(* inference_viterbi, lines 211-239 *)

\* the last index of the maximum instead of the first
ArgMaxLast(arr) ==
    CHOOSE t \in DOMAIN arr :
        /\ arr[t] = MaxOf(arr)
        /\ \A t2 \in DOMAIN arr : t2 > t => arr[t2] < arr[t]

\* np.argmax: the first index of the maximum
ArgMax(arr) ==
    CHOOSE t \in DOMAIN arr :
        /\ arr[t] = MaxOf(arr)
        /\ \A t2 \in DOMAIN arr : t2 < t => arr[t2] < arr[t]

RECURSIVE ViterbiForward(_, _, _, _)
\* the loop of lines 225-228 on dt = [delta, trace]
ViterbiForward(M, nwords_x, i, dt) ==
    IF i > nwords_x THEN dt
    ELSE LET cand(tag) == Stored([t \in Tags |-> dt.delta[i - 1][t] + M[i][t][tag]])
         IN ViterbiForward(M, nwords_x, i + 1,
               [delta |-> Stored([dt.delta EXCEPT
                                    ![i] = Stored([tag \in Tags |-> MaxOf(cand(tag))])]),
                trace |-> Stored([dt.trace EXCEPT
                                    ![i] = Stored([tag \in Tags |-> ArgMax(cand(tag))])])])

RECURSIVE Backtrace(_, _, _, _)
\* the loop of lines 235-238
Backtrace(trace, index, best, y_char) ==
    IF index <= 0 THEN y_char
    ELSE LET b == trace[index + 1][best] IN
         Backtrace(trace, index - 1, b, Stored([y_char EXCEPT ![index - 1] = index_tag[b]]))

Viterbi(x, M) ==
    LET nwords_x == Len0(x) - 2
        zeros == Stored([i \in 0 .. nwords_x |-> Stored([t \in Tags |-> 0])])
        dt == ViterbiForward(M, nwords_x, 2,
                 [delta |-> [zeros EXCEPT ![1] = M[1][start_index]], trace |-> zeros])
        y0 == Stored([j \in 0 .. (nwords_x - 1) |-> start_tag])
        best == ArgMax(dt.delta[nwords_x])
    IN [delta |-> dt.delta, trace |-> dt.trace,
        y_char |-> Backtrace(dt.trace, nwords_x - 1, best,
                             [y0 EXCEPT ![nwords_x - 1] = index_tag[best]])]

InferenceViterbi(x, M) == Viterbi(x, M).y_char

----------------------------------------------------------------------------
(* model_gradient_x, lines 242-283                                         *)
(* P and gradient are kept as numerators over the denominator exp(z).      *)

\* lines 259-269: P after np.exp.  An entry the loop skips keeps the 0 of
\* np.zeros and becomes exp(0) = 1, that is z / z.
TransitionP(x, M, alpha, beta, z) ==
    Stored([i \in 0 .. (Len0(x) - 2) |->
        Stored([yi_1 \in Tags |->
            Stored([yi \in Tags |->
                IF i = 0 \/ (i = 1 /\ yi_1 # start_index)
                THEN z
                ELSE alpha[i - 1][yi_1] * Exp(M[i][yi_1][yi]) * beta[i][yi]])])])

\* the (yi_1, yi) pairs of one position, numbered in the order the two inner
\* loops visit them
TagPairs == 0 .. (ntags * ntags - 1)

RECURSIVE AccumulateFrom(_, _, _, _, _, _)
\* lines 270-281, one position i per step.  activate_feature is created once,
\* before the loops, and only ever appended to; gradient[activate_feature] += p
\* adds p once to every index the list holds.  So the pair numbered q adds its
\* P[i, yi_1, yi] to every feature listed before position i or active at one
\* of the pairs 0 .. q of position i.
AccumulateFrom(fi, x, P, i, activate_feature, gradient) ==
    IF i > Len0(x) - 2 THEN gradient
    ELSE LET p == Stored([q \in TagPairs |-> P[i][q \div ntags][q % ntags]])
             active == Stored([q \in TagPairs |->
                          ActiveFeatures(fi, x, q \div ntags, q % ntags, i)])
             appended == UNION {active[q] : q \in TagPairs}
             whole == SumOver(p, TagPairs)
             since(k) == SumOver(p, {q \in TagPairs : \E q2 \in 0 .. q : k \in active[q2]})
         IN AccumulateFrom(fi, x, P, i + 1, activate_feature \cup appended,
               Stored([k \in DOMAIN gradient |->
                   IF k \in activate_feature THEN gradient[k] + whole
                   ELSE IF k \in appended THEN gradient[k] + since(k)
                   ELSE gradient[k]]))

ModelGradientX(fi, w, x) ==
    LET M == LogPotentialMatrix(fi, w, x)
        alpha == LogAlpha(x, M)
        beta == LogBeta(x, M)
        z == LogZ(x, M, alpha)
        P == TransitionP(x, M, alpha, beta, z)
    IN [z |-> z, P |-> P,
        gradient |-> AccumulateFrom(fi, x, P, 1, {}, Zeros(Len0(w)))]

----------------------------------------------------------------------------
(* train, lines 380-402: conversion to ids and the prior feature counts *)

ToIds(index, s) == [i \in 0 .. (Len(s) - 1) |-> index[s[i + 1]]]

TrainData(wi, sentences, labels) ==
    [j \in 1 .. Len(sentences) |->
        <<ToIds(wi, sentences[j]), ToIds(tag_index, labels[j])>>]

RECURSIVE PriorCountFrom(_, _, _, _, _)
\* prior_feature_count[activate_feature] += 1 for every pair and every i
PriorCountFrom(fi, td, j, i, count) ==
    IF j > Len(td) THEN count
    ELSE LET x == td[j][1]
             y == td[j][2]
             n == Len0(x) - 2
         IN IF i > n THEN PriorCountFrom(fi, td, j + 1, 1, count)
            ELSE LET act == ActiveFeatures(fi, x, y[i - 1], y[i], i)
                 IN PriorCountFrom(fi, td, j, i + 1,
                        Stored([k \in DOMAIN count |->
                            IF k \in act THEN count[k] + 1 ELSE count[k]]))

PriorCount(fi, td, nf) == PriorCountFrom(fi, td, 1, 1, Zeros(nf))

----------------------------------------------------------------------------
(* Weight vectors *)

\* np.ones(nweights) / nweights: one unit per entry
UniformWeights(nw) == [k \in 0 .. (nw - 1) |-> 1]

\* the vectors the optimizer may evaluate or return: its contract fixes
\* only their length
OptVectors(nw) == {[k \in 0 .. (nw - 1) |-> v] : v \in 0 .. MaxWeight}

----------------------------------------------------------------------------
(* The corpus files of the model *)

\* lines as f.readlines() returns them: every line but the last ends in "\n"
GoodLines ==
    {<<"x", " ", "B", "\n">>, <<"y", " ", "E", "\n">>, <<"z", " ", "S", "\n">>}
BlankLine == <<"\n">>
BadLines ==
    {<<"x", "\n">>, <<"x", " ", "B", " ", "B", "\n">>, <<" ", "\n">>}
TerminatedLines == GoodLines \cup {BlankLine} \cup BadLines
UnterminatedLines == {<<"z", " ", "S">>, <<"z">>, <<"y", "y">>}

\* the corpus "x B\ny E\n\nz S\n": two sentences over three characters
ExampleCorpus ==
    <<<<"x", " ", "B", "\n">>, <<"y", " ", "E", "\n">>, <<"\n">>, <<"z", " ", "S", "\n">>>>

\* the example corpus and every file of at most MaxLines lines
Corpora ==
    {<<>>, ExampleCorpus} \cup
    UNION {{Append(h, l) :
               h \in [1 .. (len - 1) -> TerminatedLines],
               l \in TerminatedLines \cup UnterminatedLines} :
           len \in 1 .. MaxLines}

----------------------------------------------------------------------------
(* The object and the calls on it *)

Init ==
    /\ pc = "new"
    /\ err = "none"
    /\ corpus = <<>>
    /\ nwords = 2
    /\ word_index = init_word_index
    /\ index_word = init_index_word
    /\ nfeatures = 0
    /\ feature_index = Empty0
    /\ index_feature = Empty0
    /\ prior_feature_count = Zeros(0)
    /\ nweights = 0
    /\ weights = Zeros(0)
    /\ train_data = <<>>
    /\ evals = 0
    /\ saved = FALSE
    /\ res = "none"
    /\ xin = Empty0
    /\ yin = Empty0
    /\ out = "none"

\* an exception escapes train
Raise(e) == pc' = "error" /\ err' = e

\* log_alpha, line 144: alpha has nwords_x + 1 rows, so alpha[1] needs nwords_x >= 1
AlphaIndexError(x) == Len0(x) - 2 < 1

\* train(file_name) up to the call of minimize, lines 325-413
Train(lines) ==
    /\ pc = "new"
    /\ corpus' = lines
    /\ UNCHANGED <<evals, saved, res, xin, yin, out>>
    /\ LET ing == Ingest(lines, word_index, index_word, nwords)
           flist == EnumerateFeatures(ing.nwords)
           fi == FeatureIndexOf(flist)
           nf == Len(flist)
           td == TrainData(ing.word_index, ing.sentences, ing.labels)
       IN /\ nwords' = ing.nwords
          /\ word_index' = ing.word_index
          /\ index_word' = ing.index_word
          /\ IF ing.err # "none"
             THEN /\ Raise(ing.err)        \* line 344
                  /\ UNCHANGED <<nfeatures, feature_index, index_feature,
                                 prior_feature_count, nweights, weights, train_data>>
             ELSE IF ing.sentences = <<>>
             THEN /\ Raise("IndexError")   \* line 353, sentences[0]
                  /\ UNCHANGED <<nfeatures, feature_index, index_feature,
                                 prior_feature_count, nweights, weights, train_data>>
             ELSE /\ feature_index' = fi
                  /\ index_feature' = IndexFeatureOf(flist)
                  /\ nfeatures' = nf
                  /\ nweights' = nf
                  /\ weights' = UniformWeights(nf)
                  /\ train_data' = td
                  /\ prior_feature_count' = PriorCount(fi, td, nf)
                  /\ IF \E j \in 1 .. Len(td) : AlphaIndexError(td[j][1])
                     THEN Raise("IndexError")   \* line 407, in log_alpha
                     ELSE pc' = "minimize" /\ err' = "none"

\* ncallable(weights), called by the optimizer
Ncallable(w) ==
    /\ pc = "minimize"
    /\ evals < MaxEvals
    /\ weights' = w
    /\ evals' = evals + 1
    /\ UNCHANGED <<pc, err, corpus, modelVars, saved, res, xin, yin, out>>

\* njac_callable(weights), called by the optimizer
NjacCallable(w) ==
    /\ pc = "minimize"
    /\ evals < MaxEvals
    /\ weights' = w
    /\ evals' = evals + 1
    /\ UNCHANGED <<pc, err, corpus, modelVars, saved, res, xin, yin, out>>

\* minimize returns res; train, lines 416-420, and save.  train reads res.x
\* only on success; on failure it is taken to be the vector evaluated last.
MinimizeReturn(success, x) ==
    /\ pc = "minimize"
    /\ success \/ x = weights
    /\ pc' = "done"
    /\ res' = [success |-> success, x |-> x]
    /\ IF success
       THEN weights' = x /\ saved' = TRUE
       ELSE UNCHANGED <<weights, saved>>
    /\ UNCHANGED <<err, corpus, modelVars, evals, xin, yin, out>>

Next ==
    \/ \E lines \in Corpora : Train(lines)
    \/ \E w \in OptVectors(nweights) : Ncallable(w)
    \/ \E w \in OptVectors(nweights) : NjacCallable(w)
    \/ \E success \in BOOLEAN, x \in OptVectors(nweights) : MinimizeReturn(success, x)

Spec == Init /\ [][Next]_vars

----------------------------------------------------------------------------
(* Inference and the gradient on a loaded model *)

\* the corpus of the training run whose model is loaded
LoadedCorpus == <<<<"x", " ", "B", "\n">>, <<"y", " ", "E", "\n">>, <<"\n">>>>

\* sparse weight vectors: every m-th feature from offset c on weighs 1 or 2
\* units, the others 0
Strided(nw, m, c) ==
    [k \in 0 .. (nw - 1) |-> IF k % m = c THEN 1 + ((k \div m) % 2) ELSE 0]

LoadedWeights(nw) ==
    {Zeros(nw)} \cup {Strided(nw, m, c) : m \in {7, 9, 11}, c \in 0 .. 6}

\* x = [0, w1, ..., wn, 1] over the given word ids
Sequence(tokens) ==
    [i \in 0 .. (Len(tokens) + 1) |->
        IF i = 0 THEN 0 ELSE IF i = Len(tokens) + 1 THEN 1 ELSE tokens[i]]

\* sequences of known words, and sequences with one word id that the
\* vocabulary does not hold
KnownSequences(nw) ==
    UNION {{Sequence(t) : t \in [1 .. n -> 2 .. (nw - 1)]} : n \in 1 .. MaxTokens}

UnseenSequences(nw) ==
    UNION {{[x EXCEPT ![j] = nw] : j \in 1 .. (Len0(x) - 2)} : x \in KnownSequences(nw)}

\* the label sequences of a sequence with n tokens, sentinel tags at both ends
Paths(n) ==
    {[i \in 0 .. (n + 1) |->
         IF i = 0 THEN start_index ELSE IF i = n + 1 THEN end_index ELSE p[i]] :
     p \in [1 .. n -> Tags]}

\* the object after load() of the model that train saved for LoadedCorpus
InitLoaded ==
    LET ing == Ingest(LoadedCorpus, init_word_index, init_index_word, 2)
        flist == EnumerateFeatures(ing.nwords)
        fi == FeatureIndexOf(flist)
        td == TrainData(ing.word_index, ing.sentences, ing.labels)
    IN /\ pc = "loaded"
       /\ err = "none"
       /\ corpus = <<>>
       /\ nwords = ing.nwords
       /\ word_index = ing.word_index
       /\ index_word = ing.index_word
       /\ nfeatures = Len(flist)
       /\ feature_index = fi
       /\ index_feature = IndexFeatureOf(flist)
       /\ prior_feature_count = PriorCount(fi, td, Len(flist))
       /\ nweights = Len(flist)
       /\ weights \in LoadedWeights(Len(flist))
       /\ train_data = <<>>
       /\ evals = 0
       /\ saved = FALSE
       /\ res = "none"
       /\ xin = Empty0
       /\ yin = Empty0
       /\ out = "none"

\* a call of a function of the loaded model on x; the lookups of
\* log_potential_matrix come first in each of them
Call(name, x, result) ==
    /\ pc = "loaded"
    /\ xin' = x
    /\ IF KeyErrorIn(feature_index, x)
       THEN pc' = "error" /\ err' = "KeyError" /\ out' = "none"
       ELSE pc' = name /\ err' = "none" /\ out' = result
    /\ UNCHANGED <<corpus, modelVars, weights, evals, saved, res>>

CallLogPotentialMatrix(x) ==
    /\ Call("log_potential_matrix", x, LogPotentialMatrix(feature_index, weights, x))
    /\ UNCHANGED yin

\* log_alpha, log_beta and log_z on the same M
CallForwardBackward(x) ==
    /\ Call("log_z", x,
            LET M == LogPotentialMatrix(feature_index, weights, x)
                alpha == LogAlpha(x, M)
            IN [alpha |-> alpha, beta |-> LogBeta(x, M), z |-> LogZ(x, M, alpha)])
    /\ UNCHANGED yin

CallInferenceViterbi(x) ==
    /\ Call("inference_viterbi", x,
            InferenceViterbi(x, LogPotentialMatrix(feature_index, weights, x)))
    /\ UNCHANGED yin

CallModelGradientX(x) ==
    /\ Call("model_gradient_x", x, ModelGradientX(feature_index, weights, x))
    /\ UNCHANGED yin

NextLoaded ==
    \/ \E x \in KnownSequences(nwords) \cup UnseenSequences(nwords) :
           CallLogPotentialMatrix(x)
    \/ \E x \in KnownSequences(nwords) \cup UnseenSequences(nwords) :
           CallInferenceViterbi(x)
    \/ \E x \in KnownSequences(nwords) : CallForwardBackward(x)

SpecLoaded == InitLoaded /\ [][NextLoaded]_vars

\* the calls of model_gradient_x, as model_gradient makes them for each x
NextGradient ==
    \E x \in KnownSequences(nwords) : CallModelGradientX(x)

SpecGradient == InitLoaded /\ [][NextGradient]_vars

\* the j-th label sequence of n tokens, counting in base ntags
PathNo(n, j) ==
    [i \in 0 .. (n + 1) |->
        IF i = 0 THEN start_index
        ELSE IF i = n + 1 THEN end_index
        ELSE (j \div (ntags ^ (n - i))) % ntags]

\* The enumeration of all label sequences of x: log_potential(x, y) is
\* called for one y after the other and exp of the results is summed.
\* out.logp is the last result, out.total the numerator of the sum so far.
StartEnumeration(x) ==
    /\ pc = "loaded"
    /\ pc' = "enumerating"
    /\ xin' = x
    /\ out' = [logp |-> <<0, 1>>, total |-> 0, count |-> 0]
    /\ UNCHANGED <<err, corpus, modelVars, weights, evals, saved, res, yin>>

CallLogPotential ==
    /\ pc = "enumerating"
    /\ LET n == Len0(xin) - 2
           y == PathNo(n, out.count)
           logp == LogPotential(feature_index, weights, xin, y)
       IN /\ yin' = y
          /\ out' = [logp |-> logp, total |-> out.total + logp[1],
                     count |-> out.count + 1]
          /\ pc' = IF out.count + 1 = ntags ^ n THEN "enumerated" ELSE "enumerating"
    /\ UNCHANGED <<err, corpus, modelVars, weights, evals, saved, res, xin>>

NextPotential ==
    \/ \E x \in {s \in KnownSequences(nwords) : Len0(s) - 2 <= MaxEnumTokens} :
           StartEnumeration(x)
    \/ CallLogPotential

SpecPotential == InitLoaded /\ [][NextPotential]_vars

----------------------------------------------------------------------------
(* Properties *)

TokensOf(x) == Len0(x) - 2

\* C1: for every sequence x and weight vector, exp(log_potential(x, y))
\* summed over all ntags^n label sequences y of x equals 1: once the
\* enumeration is complete, the numerators sum to the denominator exp(log_z(x)).
C1_ProbabilitiesSumToOne ==
    pc = "enumerated" => out.total = out.logp[2]

\* C2: log_z(x) equals logSumExp over tags of alpha[i, tag] + beta[i, tag] at
\* every position i in 1..n, with alpha, beta computed from the same M.
C2_ForwardBackwardAgree ==
    pc = "log_z" =>
        \A i \in 1 .. TokensOf(xin) :
            out.z = LogSumExp([t \in Tags |-> out.alpha[i][t] * out.beta[i][t]])

\* a call of log_z on a sequence of at least three tokens where the forward
\* values differ between tags and z is more than the number of paths
C2_Witness ==
    /\ pc = "log_z"
    /\ TokensOf(xin) >= 3
    /\ \E t1 \in Tags, t2 \in Tags : out.alpha[2][t1] # out.alpha[2][t2]
    /\ \E t1 \in Tags, t2 \in Tags : out.beta[1][t1] # out.beta[1][t2]
    /\ out.z > ntags ^ TokensOf(xin)

\* the unnormalized potential sum of a label sequence y: M[i, y[i-1], y[i]]
\* summed over i = 1..n
RECURSIVE PathScoreFrom(_, _, _)
PathScoreFrom(M, y, i) ==
    IF i > Len0(y) - 2 THEN 0 ELSE M[i][y[i - 1]][y[i]] + PathScoreFrom(M, y, i + 1)

PathScore(M, y) == PathScoreFrom(M, y, 1)

\* the label sequences of maximal potential sum, found by scoring every one
\* of the ntags^n label sequences
BestPaths(M, n) ==
    LET score == [j \in 0 .. (ntags ^ n - 1) |-> PathScore(M, PathNo(n, j))]
        top == MaxOf(score)
    IN {PathNo(n, j) : j \in {k \in DOMAIN score : score[k] = top}}

\* y and y2 differ, and at the last position where they differ y holds the
\* lower tag index
LowerFromTheEnd(y, y2) ==
    \E i \in DOMAIN y :
        /\ y[i] < y2[i]
        /\ \A j \in DOMAIN y : j > i => y[j] = y2[j]

\* the tag ids of a returned tag path, between the sentinel tags
AsLabels(y_char) ==
    [i \in 0 .. (Len0(y_char) + 1) |->
        IF i = 0 THEN start_index
        ELSE IF i = Len0(y_char) + 1 THEN end_index
        ELSE tag_index[y_char[i - 1]]]

\* C3: inference_viterbi(x) returns a tag path of length n whose potential
\* sum is the maximum over all ntags^n paths, and ties resolve to the lowest
\* tag index: the final tag is the lowest among the best paths' final tags,
\* and going back each previous tag is the lowest that still lies on a best
\* path with the tags already fixed.
C3_ViterbiOptimal ==
    pc = "inference_viterbi" =>
        LET n == TokensOf(xin)
            M == LogPotentialMatrix(feature_index, weights, xin)
            y == AsLabels(out)
            best == BestPaths(M, n)
        IN /\ Len0(out) = n
           /\ y \in best
           /\ \A y2 \in best : y2 = y \/ LowerFromTheEnd(y, y2)

\* a decoding of four tokens where several paths are best but not all, and
\* the path returned is not the all-B path
C3_Witness ==
    /\ pc = "inference_viterbi"
    /\ TokensOf(xin) = MaxTokens
    /\ LET M == LogPotentialMatrix(feature_index, weights, xin)
           best == BestPaths(M, TokensOf(xin))
       IN /\ Cardinality(best) > 1
          /\ best # Paths(TokensOf(xin))
    /\ \E i \in DOMAIN out : out[i] # index_tag[0]

\* C4: model_gradient_x(x) returns the expected feature counts: the entry of
\* feature k is the sum of P[i, tagPrev, tagCur] over exactly the transitions
\* at which feature k is active (feature_at), and over no other.
C4_ExpectedFeatureCounts ==
    pc = "model_gradient_x" =>
        \A k \in DOMAIN out.gradient :
            out.gradient[k] =
                SumOver([tr \in {<<i, a, b>> : i \in 1 .. TokensOf(xin), a \in Tags, b \in Tags}
                            |-> out.P[tr[1]][tr[2]][tr[3]]],
                        {tr \in {<<i, a, b>> : i \in 1 .. TokensOf(xin), a \in Tags, b \in Tags} :
                            FeatureAt(index_feature, k, xin, tr[2], tr[3], tr[1]) = 1})

\* C5: when minimize returns without success the weight vector is the
\* initial uniform one, whatever the optimizer evaluated; when it returns
\* with success the weight vector is the returned one.
C5_FailureKeepsInitialWeights ==
    pc = "done" =>
        IF res.success THEN weights = res.x
        ELSE weights = UniformWeights(nweights)

\* C6: a sequence with a word id that the feature index does not hold raises
\* no lookup failure in log_potential_matrix or inference_viterbi; the call
\* returns (for inference_viterbi, a tag path of the input's length).
C6_UnseenWordIsNoFailure ==
    (pc # "loaded" /\ xin \in UnseenSequences(nwords)) =>
        /\ err = "none"
        /\ pc = "inference_viterbi" => Len0(out) = TokensOf(xin)

\* a corpus line that is not blank and has not exactly two fields
Malformed(line) == line # BlankLine /\ Len(Split(line)) # 2

\* C7: a corpus with a malformed line makes train raise a format error
\* before the optimizer runs, and save is never called.
C7_MalformedLineAborts ==
    (pc # "new" /\ \E j \in 1 .. Len(corpus) : Malformed(corpus[j])) =>
        /\ pc = "error"
        /\ err = "ValueError"
        /\ evals = 0
        /\ res = "none"
        /\ ~saved

\* the sentences of a file: one per blank line, and one more when the last
\* line is not blank
SentenceCount(lines) ==
    Cardinality({j \in 1 .. Len(lines) : lines[j] = BlankLine})
    + (IF lines # <<>> /\ lines[Len(lines)] # BlankLine THEN 1 ELSE 0)

Bracketed(x, y) ==
    /\ Len0(x) = Len0(y)
    /\ x[0] = 0 /\ y[0] = start_index
    /\ x[Len0(x) - 1] = 1 /\ y[Len0(y) - 1] = end_index

\* C8: ingestion yields one training pair per sentence of the file, whether
\* a blank line or the end of the file ends the sentence (two pairs and five
\* vocabulary entries for the example corpus), each pair bracketed by the
\* sentinels and of equal length.
C8_OnePairPerSentence ==
    (pc \in {"minimize", "done"} /\ \A j \in 1 .. Len(corpus) : ~Malformed(corpus[j])) =>
        /\ Len(train_data) = SentenceCount(corpus)
        /\ corpus = ExampleCorpus => (Len(train_data) = 2 /\ nwords = 5)
        /\ \A j \in 1 .. Len(train_data) : Bracketed(train_data[j][1], train_data[j][2])

\* every feature over a vocabulary of nw words
AllFeatures(nw) ==
    {<<"U", U_feature_pos[p], word, tag>> :
        p \in 1 .. nU_features, word \in 0 .. (nw - 1), tag \in Tags}
    \cup
    {<<"B", 0, word, tag1, tag2>> :
        word \in 0 .. (nw - 1), tag1 \in Tags, tag2 \in Tags}

\* C9: once train has enumerated the features, feature_index and
\* index_feature are mutually inverse bijections between all features over
\* the vocabulary and the ids 0..nfeatures-1, unigrams before bigrams,
\* nfeatures = 36 * nwords, and weights and prior_feature_count have
\* nfeatures entries; evaluations by the optimizer keep this.
C9_FeatureIdsDense ==
    Len0(feature_index) > 0 =>
        /\ nfeatures = 36 * nwords
        /\ DOMAIN feature_index = AllFeatures(nwords)
        /\ DOMAIN index_feature = 0 .. (nfeatures - 1)
        /\ \A f \in DOMAIN feature_index :
              /\ feature_index[f] \in DOMAIN index_feature
              /\ index_feature[feature_index[f]] = f
        /\ \A k \in DOMAIN index_feature :
              /\ index_feature[k] \in DOMAIN feature_index
              /\ feature_index[index_feature[k]] = k
              /\ index_feature[k][1] = "U" <=> k < 20 * nwords
        /\ DOMAIN weights = 0 .. (nfeatures - 1)
        /\ DOMAIN prior_feature_count = 0 .. (nfeatures - 1)

\* the optimizer has made all its evaluations on a vocabulary of five words
\* and the weights are no longer the initial ones
C9_Witness ==
    /\ pc = "minimize"
    /\ evals = MaxEvals
    /\ nwords = 5
    /\ weights # UniformWeights(nweights)

\* C10: at position 1 every transition from a previous tag other than the
\* start tag has probability zero in the P that model_gradient_x accumulates.
C10_FirstPositionForcedToStart ==
    pc = "model_gradient_x" =>
        \A a \in Tags \ {start_index}, b \in Tags : out.P[1][a][b] = 0

====
